---- MODULE Spec2Model ----
(***************************************************************************)
(* Model of src/src/main.py: the plugin aggregation and mirroring run.     *)
(*                                                                         *)
(* Strings are sequences of one-character strings.  The three ideographs   *)
(* of the first sensitive term are written "u7f51", "u6613", "u4e91".      *)
(* A file cut short by a failing write holds bytes: a byte below 0x80 is   *)
(* written as its character, any other byte as "xE7", "xBD" and so on.     *)
(* A descriptor (a Python dict) is a function from its keys to values; a   *)
(* descriptor without a "name" key simply lacks that key.                  *)
(*                                                                         *)
(* Scheduling is asyncio's: one thread, a task runs without interruption   *)
(* from one await to the next.  The awaits of a per-descriptor task are    *)
(* client.get (line 105) and asyncio.sleep (line 160), so one action of    *)
(* the model is the code between two consecutive awaits.                   *)
(***************************************************************************)
EXTENDS Integers, Sequences, FiniteSets, TLC

\* ------------------------------------------------------------------ bounds
MaxPlugins == 3
MaxSources == 2
MaxSingles == 1
MaxCdnPlugins == 2
MaxNameLen == 2
\* the calls of write_text that raise in one run of fetch_plugins
MaxWriteFaults == 1
\* the bytes a write that raises has put into the file: 0 to MaxCut
MaxCut == 1

\* ------------------------------------------------------- program constants
MAX_RETRIES == 3
FilenameLimit == 50
VERSION == <<"0", ".", "2", ".", "0">>

\* ------------------------------------------------------------- characters
Letters == {"T", "Q", "W", "x", "y", "z", "j", "s", "p", "l", "u", "g", "i", "n", "c", "d"}
DigitChars == {"0", "1", "2", "3", "4", "5", "6", "7", "8", "9"}
Ideographs == {"u7f51", "u6613", "u4e91"}
\* what the regular expression class \w matches (str pattern, Unicode)
WordChars == Letters \cup DigitChars \cup Ideographs \cup {"_"}
\* what the regular expression class \s matches
SpaceChars == {" ", "\t", "\n"}

\* str(n) of a non-negative integer
DigitOf(d) == CASE d = 0 -> "0" [] d = 1 -> "1" [] d = 2 -> "2" [] d = 3 -> "3"
                [] d = 4 -> "4" [] d = 5 -> "5" [] d = 6 -> "6" [] d = 7 -> "7"
                [] d = 8 -> "8" [] d = 9 -> "9"
RECURSIVE IntToStr(_)
IntToStr(n) == IF n < 10 THEN <<DigitOf(n)>>
               ELSE IntToStr(n \div 10) \o <<DigitOf(n % 10)>>

\* s[:n]
Take(s, n) == SubSeq(s, 1, IF Len(s) < n THEN Len(s) ELSE n)

\* text.encode('utf-8'), what a file opened with encoding='utf-8' receives:
\* three bytes for an ideograph, one byte for every other character here
Utf8Char(c) ==
    CASE c = "u7f51" -> <<"xE7", "xBD", "x91">>
      [] c = "u6613" -> <<"xE6", "x98", "x93">>
      [] c = "u4e91" -> <<"xE4", "xBA", "x91">>
      [] OTHER -> <<c>>
Utf8(text) ==
    LET encoded[t \in Seq(STRING)] ==
            IF Len(t) = 0 THEN <<>>
            ELSE IF Len(t) = 1 THEN Utf8Char(t[1])
            ELSE LET half == Len(t) \div 2
                 IN  encoded[SubSeq(t, 1, half)] \o encoded[SubSeq(t, half + 1, Len(t))]
    IN  encoded[text]

\* s.replace(old, new): leftmost non-overlapping occurrences, old non-empty
str_replace(s, old, new) ==
    LET replaced[t \in Seq(STRING)] ==
            LET found == {i \in 1..(Len(t) - Len(old) + 1) :
                             SubSeq(t, i, i + Len(old) - 1) = old}
            IN  IF found = {} THEN t
                ELSE LET first == CHOOSE i \in found : \A j \in found : i <= j
                     IN  SubSeq(t, 1, first - 1) \o new
                         \o replaced[SubSeq(t, first + Len(old), Len(t))]
    IN  replaced[s]

\* s.rstrip('/')
RECURSIVE rstrip_slash(_)
rstrip_slash(s) == IF s # <<>> /\ s[Len(s)] = "/"
                   THEN rstrip_slash(SubSeq(s, 1, Len(s) - 1))
                   ELSE s

\* re.sub(r'[^\w\u4e00-\u9fff\s]', '', name): drop what is neither \w, ideograph nor \s
RECURSIVE re_sub_illegal(_)
re_sub_illegal(name) ==
    IF name = <<>> THEN <<>>
    ELSE IF name[1] \in WordChars \cup Ideographs \cup SpaceChars
         THEN <<name[1]>> \o re_sub_illegal(Tail(name))
         ELSE re_sub_illegal(Tail(name))

\* cleaned.replace(' ', '_')
SpacesToUnderscores(s) == [k \in 1..Len(s) |-> IF s[k] = " " THEN "_" ELSE s[k]]

sanitize_filename(name) ==
    LET cleaned == SpacesToUnderscores(re_sub_illegal(name))
    IN  IF cleaned # <<>> THEN Take(cleaned, FilenameLimit)
        ELSE <<"p", "l", "u", "g", "i", "n">>

\* ------------------------------------------------------------ descriptors
NetEase == <<"u7f51", "u6613", "u4e91">>
UrlX == <<"x", ".", "j", "s">>
UrlY == <<"y", ".", "j", "s">>
UrlZ == <<"z", ".", "j", "s">>

\* The descriptors fetch_plugins' inputs are drawn from.  The first two
\* resolve to the same name "WT" (the first by both substitutions), the third
\* is named like the first suffixed name "WT_1", and the fourth sanitizes to
\* the filename of the third and shares the url of the first.
Descriptors ==
    { [name |-> NetEase \o <<"Q", "Q">>, url |-> UrlX, version |-> <<"v", "1">>],
      [name |-> <<"W", "T">>, url |-> UrlY],
      [name |-> <<"W", "T", "_", "1">>, url |-> UrlZ],
      [name |-> <<"W", "T", " ", "1">>, url |-> UrlX] }

\* the values of the environment variable CDN_URL of a run: unset, or a base
\* url with a trailing slash
CdnUrls == { <<>>, <<"c", "d", "n", "/">> }

RECURSIVE SeqsUpTo(_, _)
SeqsUpTo(S, n) ==
    IF n = 0 THEN {<<>>}
    ELSE LET shorter == SeqsUpTo(S, n - 1)
         IN  shorter \cup {Append(q, e) : q \in {r \in shorter : Len(r) = n - 1}, e \in S}

\* plugin.get("name", url)
GetName(plugin) == IF "name" \in DOMAIN plugin THEN plugin.name ELSE plugin.url

\* name.replace(<NetEase>, "W").replace("QQ", "T")
ResolveName(plugin) ==
    str_replace(str_replace(GetName(plugin), NetEase, <<"W">>), <<"Q", "Q">>, <<"T">>)

\* d.copy() followed by d[key] = value
WithKey(d, key, value) ==
    [k \in DOMAIN d \cup {key} |-> IF k = key THEN value ELSE d[k]]

\* ------------------------------------------------------------------ state
VARIABLES
    CDN_URL,          \* the environment variable read at line 11
    mpc,              \* where main (or the caller of fetch_plugins) stands
    js_dir,           \* JS_DIR: filename -> text of the file
    origins,          \* main's origins
    all_plugins,      \* collect_plugins' all_plugins
    src_i,            \* collect_plugins: index of the source being resolved
    sub_pc,           \* fetch_sub_plugins: "idle", "requesting", "sleeping"
    sub_retry,        \* fetch_sub_plugins' loop variable retry
    plugins,          \* fetch_plugins' parameter
    seen_urls,        \* fetch_plugins' seen_urls
    name_count,       \* fetch_plugins' name_count: name -> count
    tpc,              \* per task: "init", "requesting", "sleeping", "done"
    retry,            \* per task: the loop variable retry
    result,           \* per task: the tuple it returned, <<>> before
    valid_plugins,    \* fetch_plugins' first return value
    original_plugins, \* fetch_plugins' second return value
    save_calls,       \* the calls of save_plugin_list so far
    dist_json,        \* DIST_JSON_PATH: the data written, <<>> if none
    plugins_json,     \* PLUGINS_JSON_PATH: the data written, <<>> if none
    all_success,      \* main's all_success
    plugins_success,  \* main's plugins_success
    done_msg,         \* the final success message was logged (line 298)
    \* history, read by no action's guard
    outcome,          \* per task: "pending", "duplicate", "success", "exhausted"
    nreq,             \* per task of the running fetch_plugins: requests issued
    nfail,            \* ... failed attempts
    nsleep,           \* ... delays waited to their end
    sub_nreq,         \* the same three counts for the running fetch_sub_plugins
    sub_nfail,
    sub_nsleep,
    src_log,          \* per resolved source: how its fetch ended
    load_failed,      \* load_origins took its except clause (lines 188-190)
    \* a call of sanitize_filename on its own
    san_name,         \* its argument
    san_result        \* what it returned, <<>> before the call

sanVars == <<san_name, san_result>>

mainVars == <<CDN_URL, load_failed, sanVars, mpc, origins, all_plugins, save_calls, dist_json,
              plugins_json, all_success, plugins_success, done_msg>>
subVars  == <<src_i, sub_pc, sub_retry, sub_nreq, sub_nfail, sub_nsleep, src_log>>
taskVars == <<plugins, seen_urls, name_count, tpc, retry, result, outcome,
              nreq, nfail, nsleep>>
outVars  == <<valid_plugins, original_plugins>>
vars == <<mainVars, subVars, taskVars, outVars, js_dir>>

Tasks == 1..Len(plugins)

\* ---------------------------------------------------- fetch_plugins: pieces
\* line 101: seen_urls.add(url)
MarkSeenNot(seen, url) == seen
MarkSeen(seen, url) == seen \cup {url}

\* line 99
SeenUrlNever(seen, url) == FALSE
SeenUrl(seen, url) == url \in seen

\* lines 64 and 151: retry == MAX_RETRIES - 1
LastAttemptLate(r) == r = MAX_RETRIES
LastAttempt(r) == r = MAX_RETRIES - 1

\* lines 100 and 156: return False, plugin, plugin.copy()
FailedResultResolved(plugin) ==
    [success |-> FALSE, new_plugin |-> plugin,
     original_plugin |-> WithKey(plugin, "name", ResolveName(plugin))]
FailedResult(plugin) ==
    [success |-> FALSE, new_plugin |-> plugin, original_plugin |-> plugin]

\* lines 114-119: the name the descriptor gets, and the counts afterwards
PluginName(nc, name) ==
    IF name \in DOMAIN nc THEN name \o <<"_">> \o IntToStr(nc[name] + 1) ELSE name
CountName(nc, name) ==
    IF name \in DOMAIN nc THEN [nc EXCEPT ![name] = @ + 1] ELSE WithKey(nc, name, 0)

\* lines 122-123
Filename(plugin_name) == sanitize_filename(plugin_name) \o <<".", "j", "s">>

\* response.text of a successful request for url
ResponseText(url) == <<"b", "o", "d", "y", " ", "o", "f">> \o url

\* line 127: output_path.write_text(text)
WriteText(dir, filename, text) == WithKey(dir, filename, text)

\* line 127 raising: write_text opens the file for writing and then writes.
\* The directory is as it was when the open failed; after the open the file
\* exists, created or truncated, and holds the bytes written before the
\* write was stopped, none or a first part of the encoded text.
WriteTextFailed(dir, filename, text) ==
    LET written[b \in Seq(STRING)] ==
            { WithKey(dir, filename, Take(b, k)) : k \in {c \in 0..MaxCut : c < Len(b)} }
    IN  {dir} \cup written[Utf8(text)]

\* lines 134-140
MirrorUrlNoStrip(cdn, filename) ==
    IF cdn # <<>> THEN (cdn \o <<"/">>) \o filename
    ELSE <<"j", "s", "/">> \o filename
MirrorUrl(cdn, filename) ==
    IF cdn # <<>> THEN (rstrip_slash(cdn) \o <<"/">>) \o filename
    ELSE <<"j", "s", "/">> \o filename

\* lines 130-148: return True, new_plugin, original_plugin
SuccessResultOriginalFromNew(plugin, plugin_name, cdn) ==
    LET new_plugin == WithKey(WithKey(plugin, "name", plugin_name), "url",
                              MirrorUrl(cdn, Filename(plugin_name)))
    IN  [success |-> TRUE, new_plugin |-> new_plugin, original_plugin |-> new_plugin]
SuccessResult(plugin, plugin_name, cdn) ==
    [success |-> TRUE,
     new_plugin |-> WithKey(WithKey(plugin, "name", plugin_name), "url",
                            MirrorUrl(cdn, Filename(plugin_name))),
     original_plugin |-> WithKey(plugin, "name", plugin_name)]

\* lines 168-174: one round of the loop over results
PartitionDropFailed(acc, r) ==
    IF r.success
    THEN [valid |-> Append(acc.valid, r.new_plugin),
          original |-> Append(acc.original, r.original_plugin)]
    ELSE acc
PartitionKeepFailed(acc, r) ==
    [valid |-> Append(acc.valid, r.new_plugin),
     original |-> Append(acc.original, r.original_plugin)]
Partition(acc, r) ==
    IF r.success
    THEN [valid |-> Append(acc.valid, r.new_plugin),
          original |-> Append(acc.original, r.original_plugin)]
    ELSE [valid |-> acc.valid,
          original |-> Append(acc.original, r.original_plugin)]

\* lines 164-174: the results are gone through in the order of the input list
RECURSIVE PartitionAllReversed(_, _)
RECURSIVE PartitionAll(_, _)
PartitionAllReversed(results, n) ==
    IF n = 0 THEN [valid |-> <<>>, original |-> <<>>]
    ELSE Partition(PartitionAllReversed(results, n - 1), results[Len(results) - n + 1])
PartitionAll(results, n) ==
    IF n = 0 THEN [valid |-> <<>>, original |-> <<>>]
    ELSE Partition(PartitionAll(results, n - 1), results[n])

\* --------------------------------------------------- fetch_plugins: actions
\* lines 85-87, 163-164: the shared state is created and every task is scheduled
FetchPluginsLaunch ==
    /\ mpc = "fetch"
    /\ mpc' = "gather"
    /\ seen_urls' = {}
    /\ name_count' = <<>>
    /\ tpc' = [i \in Tasks |-> "init"]
    /\ retry' = [i \in Tasks |-> 0]
    /\ result' = [i \in Tasks |-> <<>>]
    /\ outcome' = [i \in Tasks |-> "pending"]
    /\ nreq' = [i \in Tasks |-> 0]
    /\ nfail' = [i \in Tasks |-> 0]
    /\ nsleep' = [i \in Tasks |-> 0]
    /\ UNCHANGED <<CDN_URL, load_failed, sanVars, origins, all_plugins, save_calls, dist_json, plugins_json,
                   all_success, plugins_success, done_msg, subVars, plugins, outVars, js_dir>>

\* lines 163-164: the event loop runs the first steps of the tasks in the order
\* gather scheduled them; a task depends on no other task's progress
FirstStepAfterOthers(pcs, i) == \A j \in (DOMAIN pcs) \ {i} : pcs[j] = "done"
FirstStepDue(pcs, i) == \A j \in 1..(i - 1) : pcs[j] # "init"

\* lines 98-100: the first step of a task finds its url seen
TaskDuplicate(i) ==
    /\ mpc = "gather" /\ tpc[i] = "init"
    /\ FirstStepDue(tpc, i)
    /\ SeenUrl(seen_urls, plugins[i].url)
    /\ tpc' = [tpc EXCEPT ![i] = "done"]
    /\ result' = [result EXCEPT ![i] = FailedResult(plugins[i])]
    /\ outcome' = [outcome EXCEPT ![i] = "duplicate"]
    /\ UNCHANGED <<mainVars, subVars, plugins, seen_urls, name_count, retry,
                   nreq, nfail, nsleep, outVars, js_dir>>

\* lines 98-105: the first step of a task marks its url and issues request 1
TaskStart(i) ==
    /\ mpc = "gather" /\ tpc[i] = "init"
    /\ FirstStepDue(tpc, i)
    /\ ~SeenUrl(seen_urls, plugins[i].url)
    /\ seen_urls' = MarkSeen(seen_urls, plugins[i].url)
    /\ tpc' = [tpc EXCEPT ![i] = "requesting"]
    /\ nreq' = [nreq EXCEPT ![i] = @ + 1]
    /\ UNCHANGED <<mainVars, subVars, plugins, name_count, retry, result, outcome,
                   nfail, nsleep, outVars, js_dir>>

\* lines 150-160: the except clause of attempt retry[i]
TaskExcept(i) ==
    /\ nfail' = [nfail EXCEPT ![i] = @ + 1]
    /\ IF LastAttempt(retry[i])
       THEN /\ tpc' = [tpc EXCEPT ![i] = "done"]
            /\ result' = [result EXCEPT ![i] = FailedResult(plugins[i])]
            /\ outcome' = [outcome EXCEPT ![i] = "exhausted"]
       ELSE /\ tpc' = [tpc EXCEPT ![i] = "sleeping"]
            /\ UNCHANGED <<result, outcome>>

\* lines 105-106 raise: network error, timeout or status outside 2xx
TaskRequestFails(i) ==
    /\ mpc = "gather" /\ tpc[i] = "requesting"
    /\ TaskExcept(i)
    /\ UNCHANGED <<mainVars, subVars, plugins, seen_urls, name_count, retry,
                   nreq, nsleep, outVars, js_dir>>

\* the attempts that got as far as counting their name (lines 114-119), and
\* those of them whose write_text raised: all but the successful ones
RECURSIVE CountedAttempts(_, _)
CountedAttempts(nc, names) ==
    IF names = {} THEN 0
    ELSE LET n == CHOOSE x \in names : TRUE
         IN  (nc[n] + 1) + CountedAttempts(nc, names \ {n})
WriteFaults ==
    CountedAttempts(name_count, DOMAIN name_count)
        - Cardinality({j \in Tasks : outcome[j] = "success"})

\* lines 105-127 with write_text raising: the name was counted at lines
\* 114-119 already, and the file may have been created or truncated
TaskWriteFails(i) ==
    /\ mpc = "gather" /\ tpc[i] = "requesting"
    /\ WriteFaults < MaxWriteFaults
    /\ LET name == ResolveName(plugins[i])
           plugin_name == PluginName(name_count, name)
       IN  /\ name_count' = CountName(name_count, name)
           /\ js_dir' \in WriteTextFailed(js_dir, Filename(plugin_name),
                                          ResponseText(plugins[i].url))
    /\ TaskExcept(i)
    /\ UNCHANGED <<mainVars, subVars, plugins, seen_urls, retry,
                   nreq, nsleep, outVars>>

\* lines 105-148: the attempt succeeds
TaskSucceeds(i) ==
    /\ mpc = "gather" /\ tpc[i] = "requesting"
    /\ LET name == ResolveName(plugins[i])
           plugin_name == PluginName(name_count, name)
       IN  /\ name_count' = CountName(name_count, name)
           /\ js_dir' = WriteText(js_dir, Filename(plugin_name),
                                  ResponseText(plugins[i].url))
           /\ result' = [result EXCEPT ![i] =
                            SuccessResult(plugins[i], plugin_name, CDN_URL)]
    /\ tpc' = [tpc EXCEPT ![i] = "done"]
    /\ outcome' = [outcome EXCEPT ![i] = "success"]
    /\ UNCHANGED <<mainVars, subVars, plugins, seen_urls, retry,
                   nreq, nfail, nsleep, outVars>>

\* line 160 returns, lines 103-105: the next attempt's request is issued
TaskRetry(i) ==
    /\ mpc = "gather" /\ tpc[i] = "sleeping"
    /\ tpc' = [tpc EXCEPT ![i] = "requesting"]
    /\ retry' = [retry EXCEPT ![i] = @ + 1]
    /\ nsleep' = [nsleep EXCEPT ![i] = @ + 1]
    /\ nreq' = [nreq EXCEPT ![i] = @ + 1]
    /\ UNCHANGED <<mainVars, subVars, plugins, seen_urls, name_count, result,
                   outcome, nfail, outVars, js_dir>>

\* lines 164-176: gather returns once every task has, results in task order
FetchPluginsReturn ==
    /\ mpc = "gather"
    /\ \A i \in Tasks : tpc[i] = "done"
    /\ LET parts == PartitionAll(result, Len(plugins))
       IN  /\ valid_plugins' = parts.valid
           /\ original_plugins' = parts.original
    /\ mpc' = "fetched"
    /\ UNCHANGED <<CDN_URL, load_failed, sanVars, origins, all_plugins, save_calls, dist_json, plugins_json,
                   all_success, plugins_success, done_msg, subVars, taskVars, js_dir>>

\* ------------------------------------- specification of fetch_plugins alone
\* fetch_plugins called on any list of at most MaxPlugins descriptors, the
\* content store empty as main's reset leaves it, CDN_URL at its default
InitFetch ==
    /\ CDN_URL = <<>>
    /\ mpc = "fetch"
    /\ js_dir = <<>>
    /\ origins = <<>>
    /\ all_plugins = <<>>
    /\ src_i = 0 /\ sub_pc = "idle" /\ sub_retry = 0
    /\ sub_nreq = 0 /\ sub_nfail = 0 /\ sub_nsleep = 0 /\ src_log = <<>>
    /\ plugins \in SeqsUpTo(Descriptors, MaxPlugins)
    /\ seen_urls = {} /\ name_count = <<>>
    /\ tpc = <<>> /\ retry = <<>> /\ result = <<>> /\ outcome = <<>>
    /\ nreq = <<>> /\ nfail = <<>> /\ nsleep = <<>>
    /\ valid_plugins = <<>> /\ original_plugins = <<>>
    /\ save_calls = <<>> /\ dist_json = <<>> /\ plugins_json = <<>>
    /\ all_success = FALSE /\ plugins_success = FALSE /\ done_msg = FALSE
    /\ load_failed = FALSE /\ san_name = <<>> /\ san_result = <<>>

NextFetch ==
    \/ FetchPluginsLaunch
    \/ \E i \in Tasks : TaskDuplicate(i)
    \/ \E i \in Tasks : TaskStart(i)
    \/ \E i \in Tasks : TaskRequestFails(i)
    \/ \E i \in Tasks : TaskWriteFails(i)
    \/ \E i \in Tasks : TaskSucceeds(i)
    \/ \E i \in Tasks : TaskRetry(i)
    \/ FetchPluginsReturn

SpecFetch == InitFetch /\ [][NextFetch]_vars

\* ------------------------- specification of fetch_plugins under a CDN setting
\* the values of CDN_URL tried: unset, and bases with no, one and two trailing
\* slashes, one with a slash inside
CdnBases ==
    CdnUrls \cup { <<"c", "d", "n">>, <<"c", "d", "n", "/", "/">>, <<"c", "/", "d", "/">> }

\* fetch_plugins called on any list of at most MaxCdnPlugins descriptors under
\* any of these settings
InitCdn ==
    /\ CDN_URL \in CdnBases
    /\ mpc = "fetch"
    /\ js_dir = <<>>
    /\ origins = <<>>
    /\ all_plugins = <<>>
    /\ src_i = 0 /\ sub_pc = "idle" /\ sub_retry = 0
    /\ sub_nreq = 0 /\ sub_nfail = 0 /\ sub_nsleep = 0 /\ src_log = <<>>
    /\ plugins \in SeqsUpTo(Descriptors, MaxCdnPlugins)
    /\ seen_urls = {} /\ name_count = <<>>
    /\ tpc = <<>> /\ retry = <<>> /\ result = <<>> /\ outcome = <<>>
    /\ nreq = <<>> /\ nfail = <<>> /\ nsleep = <<>>
    /\ valid_plugins = <<>> /\ original_plugins = <<>>
    /\ save_calls = <<>> /\ dist_json = <<>> /\ plugins_json = <<>>
    /\ all_success = FALSE /\ plugins_success = FALSE /\ done_msg = FALSE
    /\ load_failed = FALSE /\ san_name = <<>> /\ san_result = <<>>

SpecCdn == InitCdn /\ [][NextFetch]_vars

\* ----------------------------------------- specification of sanitize_filename
\* one character of each class the pattern of line 41 tells apart: a letter, a
\* digit, an ideograph, the underscore, the space, other whitespace, punctuation
NameChars == {"T", "1", "u7f51", "_", " ", "\t", "\n", "!"}

\* n letters, to bring a name to the length limit of line 45
Padding(n) == [k \in 1..n |-> "T"]

\* the names sanitize_filename is called on: every short name, alone and behind
\* a run of letters that ends just below or at the limit
Names ==
    LET short == SeqsUpTo(NameChars, MaxNameLen)
    IN  short \cup { Padding(n) \o t : n \in {FilenameLimit - 1, FilenameLimit},
                                      t \in short }

InitSanitize ==
    /\ CDN_URL = <<>>
    /\ mpc = "sanitize"
    /\ js_dir = <<>>
    /\ origins = <<>>
    /\ all_plugins = <<>>
    /\ src_i = 0 /\ sub_pc = "idle" /\ sub_retry = 0
    /\ sub_nreq = 0 /\ sub_nfail = 0 /\ sub_nsleep = 0 /\ src_log = <<>>
    /\ plugins = <<>>
    /\ seen_urls = {} /\ name_count = <<>>
    /\ tpc = <<>> /\ retry = <<>> /\ result = <<>> /\ outcome = <<>>
    /\ nreq = <<>> /\ nfail = <<>> /\ nsleep = <<>>
    /\ valid_plugins = <<>> /\ original_plugins = <<>>
    /\ save_calls = <<>> /\ dist_json = <<>> /\ plugins_json = <<>>
    /\ all_success = FALSE /\ plugins_success = FALSE /\ done_msg = FALSE
    /\ load_failed = FALSE
    /\ san_name \in Names
    /\ san_result = <<>>

\* lines 38-45: one call of sanitize_filename
SanitizeCall ==
    /\ mpc = "sanitize"
    /\ san_result' = sanitize_filename(san_name)
    /\ mpc' = "sanitized"
    /\ UNCHANGED <<CDN_URL, load_failed, san_name, origins, all_plugins, save_calls,
                   dist_json, plugins_json, all_success, plugins_success, done_msg,
                   subVars, taskVars, outVars, js_dir>>

NextSanitize == SanitizeCall

SpecSanitize == InitSanitize /\ [][NextSanitize]_vars

\* ------------------------------------------------------------ main: pieces
\* d.get(key, default)
DictGet(d, key, default) == IF key \in DOMAIN d THEN d[key] ELSE default

\* lines 234 and 239: all_plugins.extend(more)
ExtendInFront(all, more) == more \o all
Extend(all, more) == all \o more

\* line 280: not valid_plugins
NoValidNever(valid) == FALSE
NoValid(valid) == valid = <<>>

\* The subscription sources of a run and what each may answer with: s1 lists
\* two plugins or sends a document without a "plugins" key, s2 lists one
\* plugin whose url s1 lists too.
SourceUrls == {"s1", "s2"}
SourceBodies(s) ==
    IF s = "s1"
    THEN { [plugins |-> << [name |-> NetEase \o <<"Q", "Q">>, url |-> UrlX, version |-> <<"v", "1">>],
                           [name |-> <<"W", "T">>, url |-> UrlY] >>],
           [desc |-> "s1"] }
    ELSE { [plugins |-> << [name |-> <<"W", "T">>, url |-> UrlX] >>] }

\* the descriptors config.singles is drawn from: one without a name
SingleDescriptors == { [url |-> UrlY] }

\* The documents origins.json may hold: every configuration within the
\* bounds, one without a "sources" key, one without a "singles" key, and the
\* empty object.
ConfigFiles ==
    { [sources |-> so, singles |-> si] :
          so \in SeqsUpTo(SourceUrls, MaxSources),
          si \in SeqsUpTo(SingleDescriptors, MaxSingles) }
    \cup { [singles |-> << [url |-> UrlY] >>], [sources |-> <<"s1">>], <<>> }

\* a file a previous run left in JS_DIR
StaleDir == [f \in {<<"o", "l", "d", ".", "j", "s">>} |-> <<"stale">>]

\* ----------------------------------------------------------- main: actions
\* lines 252-258: the directory is removed and created again
ResetDirOk ==
    /\ mpc = "reset"
    /\ js_dir' = <<>>
    /\ mpc' = "load"
    /\ UNCHANGED <<CDN_URL, load_failed, sanVars, origins, all_plugins, save_calls, dist_json, plugins_json,
                   all_success, plugins_success, done_msg, subVars, taskVars, outVars>>

\* line 261: where main stands after the except clause of the reset
AfterResetFailureGoesOn == "load"
AfterResetFailure == "exit_reset"

\* lines 259-261: rmtree or mkdir raised; the directory is as it was, or gone
ResetDirFails ==
    /\ mpc = "reset"
    /\ js_dir' \in {js_dir, <<>>}
    /\ mpc' = AfterResetFailure
    /\ UNCHANGED <<CDN_URL, load_failed, sanVars, origins, all_plugins, save_calls, dist_json, plugins_json,
                   all_success, plugins_success, done_msg, subVars, taskVars, outVars>>

\* lines 264-266 after load_origins read the file (lines 186-187)
LoadOriginsOk ==
    /\ mpc = "load"
    /\ \E file \in ConfigFiles :
          /\ origins' = file
          /\ mpc' = IF file = <<>> THEN "exit_origins" ELSE "collect"
    /\ src_i' = 1
    /\ all_plugins' = <<>>
    /\ UNCHANGED <<CDN_URL, load_failed, sanVars, save_calls, dist_json, plugins_json, all_success,
                   plugins_success, done_msg, sub_pc, sub_retry, sub_nreq, sub_nfail,
                   sub_nsleep, src_log, taskVars, outVars, js_dir>>

\* line 190: what load_origins returns from its except clause
EmptyConfigDefaultSource == [sources |-> <<"s1">>, singles |-> <<>>]
EmptyConfig == [sources |-> <<>>, singles |-> <<>>]

\* lines 188-190, 264-266: the file is missing or corrupt
LoadOriginsFails ==
    /\ mpc = "load"
    /\ origins' = EmptyConfig
    /\ load_failed' = TRUE
    /\ mpc' = "collect"
    /\ src_i' = 1
    /\ all_plugins' = <<>>
    /\ UNCHANGED <<CDN_URL, sanVars, save_calls, dist_json, plugins_json, all_success,
                   plugins_success, done_msg, sub_pc, sub_retry, sub_nreq, sub_nfail,
                   sub_nsleep, src_log, taskVars, outVars, js_dir>>

ConfigSources == DictGet(origins, "sources", <<>>)
ConfigSingles == DictGet(origins, "singles", <<>>)

\* lines 230-231, 57-59: the next source's first request is issued
SubRequest ==
    /\ mpc = "collect" /\ sub_pc = "idle"
    /\ src_i <= Len(ConfigSources)
    /\ sub_pc' = "requesting"
    /\ sub_retry' = 0
    /\ sub_nreq' = 1 /\ sub_nfail' = 0 /\ sub_nsleep' = 0
    /\ UNCHANGED <<mainVars, src_i, src_log, taskVars, outVars, js_dir>>

\* lines 59-62, 232-234: the source answers with a JSON object
SubSucceeds ==
    /\ mpc = "collect" /\ sub_pc = "requesting"
    /\ \E data \in SourceBodies(ConfigSources[src_i]) :
          LET subs == DictGet(data, "plugins", <<>>)
          IN  /\ all_plugins' = IF subs # <<>> THEN Extend(all_plugins, subs)
                                ELSE all_plugins
              /\ src_log' = Append(src_log, [url |-> ConfigSources[src_i],
                                             ok |-> TRUE, plugins |-> subs])
    /\ sub_pc' = "idle"
    /\ src_i' = src_i + 1
    /\ UNCHANGED <<CDN_URL, load_failed, sanVars, mpc, origins, save_calls, dist_json, plugins_json,
                   all_success, plugins_success, done_msg, sub_retry, sub_nreq,
                   sub_nfail, sub_nsleep, taskVars, outVars, js_dir>>

\* lines 63-72: the attempt raised; [] is returned after the last one
SubFails ==
    /\ mpc = "collect" /\ sub_pc = "requesting"
    /\ sub_nfail' = sub_nfail + 1
    /\ IF LastAttempt(sub_retry)
       THEN /\ sub_pc' = "idle"
            /\ src_i' = src_i + 1
            /\ src_log' = Append(src_log, [url |-> ConfigSources[src_i],
                                           ok |-> FALSE, plugins |-> <<>>])
       ELSE /\ sub_pc' = "sleeping"
            /\ UNCHANGED <<src_i, src_log>>
    /\ UNCHANGED <<mainVars, sub_retry, sub_nreq, sub_nsleep, taskVars, outVars, js_dir>>

\* line 72 returns, lines 57-59: the next attempt's request is issued
SubRetry ==
    /\ mpc = "collect" /\ sub_pc = "sleeping"
    /\ sub_pc' = "requesting"
    /\ sub_retry' = sub_retry + 1
    /\ sub_nsleep' = sub_nsleep + 1
    /\ sub_nreq' = sub_nreq + 1
    /\ UNCHANGED <<mainVars, src_i, sub_nfail, src_log, taskVars, outVars, js_dir>>

\* line 232: the loop over the sources has gone through all of them
SourcesResolvedEarly(i, sources) == i >= Len(sources)
SourcesResolved(i, sources) == i > Len(sources)

\* lines 237-241, 271-278: the singles are appended, collect_plugins returns
\* and main goes on to fetch_plugins unless nothing was collected; the locals
\* of the last fetch_sub_plugins are gone
CollectReturn ==
    /\ mpc = "collect" /\ sub_pc = "idle"
    /\ SourcesResolved(src_i, ConfigSources)
    /\ LET collected == IF ConfigSingles # <<>> THEN Extend(all_plugins, ConfigSingles)
                        ELSE all_plugins
       IN  /\ all_plugins' = collected
           /\ IF collected = <<>>
              THEN mpc' = "exit_empty" /\ UNCHANGED plugins
              ELSE mpc' = "fetch" /\ plugins' = collected
    /\ sub_retry' = 0 /\ sub_nreq' = 0 /\ sub_nfail' = 0 /\ sub_nsleep' = 0
    /\ UNCHANGED <<CDN_URL, load_failed, sanVars, origins, save_calls, dist_json, plugins_json, all_success,
                   plugins_success, done_msg, src_i, sub_pc, src_log, seen_urls,
                   name_count, tpc, retry, result, outcome, nreq, nfail, nsleep,
                   outVars, js_dir>>

\* lines 278-285: main has the two lists; the locals of fetch_plugins and of
\* its tasks are gone
AfterFetch ==
    /\ mpc = "fetched"
    /\ mpc' = IF NoValid(valid_plugins) THEN "exit_invalid" ELSE "save_all"
    /\ seen_urls' = {} /\ name_count' = <<>>
    /\ tpc' = <<>> /\ retry' = <<>> /\ result' = <<>>
    /\ nreq' = <<>> /\ nfail' = <<>> /\ nsleep' = <<>>
    /\ UNCHANGED <<CDN_URL, load_failed, sanVars, origins, all_plugins, save_calls, dist_json, plugins_json,
                   all_success, plugins_success, done_msg, subVars, plugins, outcome,
                   outVars, js_dir>>

\* ------------------------------------------------- the text of a manifest
\* The keys of a dict in insertion order.  The descriptors of the sources and
\* of origins.json are JSON objects written in the order name, url, version;
\* a record made from a descriptor without a name has "name" added behind the
\* descriptor's keys (lines 130-131 and 143-144).
InputKeys(d) == SelectSeq(<<"name", "url", "version">>, LAMBDA k : k \in DOMAIN d)
OutputKeys(d) == InputKeys(d) \o (IF "name" \in DOMAIN d THEN <<>> ELSE <<"name">>)

\* the key orders of valid_plugins and of original_plugins (lines 168-174)
RECURSIVE ValidKeys(_)
ValidKeys(n) ==
    IF n = 0 THEN <<>>
    ELSE ValidKeys(n - 1) \o (IF outcome[n] = "success" THEN <<OutputKeys(plugins[n])>>
                              ELSE <<>>)
OriginalKeys ==
    [i \in Tasks |-> IF outcome[i] = "success" THEN OutputKeys(plugins[i])
                     ELSE InputKeys(plugins[i])]

\* a key as a string of characters
KeyChars(k) ==
    CASE k = "name" -> <<"n", "a", "m", "e">>
      [] k = "url" -> <<"u", "r", "l">>
      [] k = "version" -> <<"v", "e", "r", "s", "i", "o", "n">>

\* json.dumps of a str with ensure_ascii=False
JsonChar(c) ==
    CASE c = "\"" -> <<"\\", "\"">>
      [] c = "\\" -> <<"\\", "\\">>
      [] c = "\n" -> <<"\\", "n">>
      [] c = "\t" -> <<"\\", "t">>
      [] OTHER -> <<c>>
RECURSIVE JsonChars(_)
JsonChars(str) == IF str = <<>> THEN <<>> ELSE JsonChar(str[1]) \o JsonChars(Tail(str))
JsonStr(str) == (<<"\"">> \o JsonChars(str)) \o <<"\"">>

Spaces(n) == [k \in 1..n |-> " "]

\* json.dumps(d, indent=2) of a dict of strings that starts at depth indent
RECURSIVE JsonMembers(_, _, _)
JsonMembers(d, keys, indent) ==
    IF keys = <<>> THEN <<>>
    ELSE Spaces(indent) \o JsonStr(KeyChars(keys[1])) \o <<":", " ">> \o JsonStr(d[keys[1]])
         \o (IF Len(keys) > 1 THEN <<",", "\n">> ELSE <<>>)
         \o JsonMembers(d, Tail(keys), indent)
JsonObject(d, keys, indent) ==
    IF keys = <<>> THEN <<"{", "}">>
    ELSE <<"{", "\n">> \o JsonMembers(d, keys, indent + 2) \o <<"\n">>
         \o Spaces(indent) \o <<"}">>

\* json.dumps(items, indent=2) of a list of such dicts that starts at depth indent
RECURSIVE JsonItems(_, _, _)
JsonItems(items, orders, indent) ==
    IF items = <<>> THEN <<>>
    ELSE Spaces(indent) \o JsonObject(items[1], orders[1], indent)
         \o (IF Len(items) > 1 THEN <<",", "\n">> ELSE <<>>)
         \o JsonItems(Tail(items), Tail(orders), indent)
JsonList(items, orders, indent) ==
    IF items = <<>> THEN <<"[", "]">>
    ELSE <<"[", "\n">> \o JsonItems(items, orders, indent + 2) \o <<"\n">>
         \o Spaces(indent) \o <<"]">>

\* lines 205-206: json.dumps(data, ensure_ascii=False, indent=2) of
\* {"desc": ..., "plugins": [...]} and then replace("\\/", "/")
ManifestText(data, orders) ==
    str_replace(
        <<"{", "\n">> \o Spaces(2) \o JsonStr(<<"d", "e", "s", "c">>) \o <<":", " ">>
            \o JsonStr(data.desc) \o <<",", "\n">>
            \o Spaces(2) \o JsonStr(<<"p", "l", "u", "g", "i", "n", "s">>) \o <<":", " ">>
            \o JsonList(data.plugins, orders, 2) \o <<"\n", "}">>,
        <<"\\", "/">>, <<"/">>)

\* a file that holds bytes which are no JSON document
RawFile(bytes) == [raw |-> bytes]

\* lines 193-212: what save_plugin_list can leave in the file, text being the
\* text of data.  On success the data; on failure the file as it was when the
\* open of line 204 failed, and after that open a file truncated, with the
\* bytes written before the write was stopped, none or a first part of the
\* text encoded in UTF-8, which can end inside an ideograph.
SavedFile(old, data, text, ok) ==
    IF ok THEN {data}
    ELSE LET written[b \in Seq(STRING)] ==
                 { RawFile(Take(b, k)) : k \in {c \in 0..MaxCut : c < Len(b)} }
         IN  {old} \cup written[Utf8(text)]

\* line 289
SaveAll ==
    /\ mpc = "save_all"
    /\ \E ok \in BOOLEAN :
          LET data == [desc |-> VERSION, plugins |-> valid_plugins]
          IN  /\ save_calls' = Append(save_calls, [path |-> "all.json", data |-> data])
              /\ dist_json' \in SavedFile(dist_json, data,
                                         ManifestText(data, ValidKeys(Len(plugins))), ok)
              /\ all_success' = ok
    /\ mpc' = "save_plugins"
    /\ UNCHANGED <<CDN_URL, load_failed, sanVars, origins, all_plugins, plugins_json, plugins_success,
                   done_msg, subVars, taskVars, outVars, js_dir>>

\* lines 292-295
SavePlugins ==
    /\ mpc = "save_plugins"
    /\ \E ok \in BOOLEAN :
          LET data == [desc |-> VERSION, plugins |-> original_plugins]
          IN  /\ save_calls' = Append(save_calls, [path |-> "plugins.json", data |-> data])
              /\ plugins_json' \in SavedFile(plugins_json, data,
                                            ManifestText(data, OriginalKeys), ok)
              /\ plugins_success' = ok
    /\ mpc' = "finish"
    /\ UNCHANGED <<CDN_URL, load_failed, sanVars, origins, all_plugins, dist_json, all_success,
                   done_msg, subVars, taskVars, outVars, js_dir>>

\* line 297: all_success and plugins_success
EitherSucceeded(a, p) == a \/ p
BothSucceeded(a, p) == a /\ p

\* lines 297-298
Finish ==
    /\ mpc = "finish"
    /\ done_msg' = BothSucceeded(all_success, plugins_success)
    /\ mpc' = "exit_done"
    /\ UNCHANGED <<CDN_URL, load_failed, sanVars, origins, all_plugins, save_calls, dist_json, plugins_json,
                   all_success, plugins_success, subVars, taskVars, outVars, js_dir>>

\* ---------------------------------------------- specification of a whole run
Init ==
    /\ CDN_URL \in CdnUrls
    /\ mpc = "reset"
    /\ js_dir = StaleDir
    /\ origins = <<>>
    /\ all_plugins = <<>>
    /\ src_i = 0 /\ sub_pc = "idle" /\ sub_retry = 0
    /\ sub_nreq = 0 /\ sub_nfail = 0 /\ sub_nsleep = 0 /\ src_log = <<>>
    /\ plugins = <<>>
    /\ seen_urls = {} /\ name_count = <<>>
    /\ tpc = <<>> /\ retry = <<>> /\ result = <<>> /\ outcome = <<>>
    /\ nreq = <<>> /\ nfail = <<>> /\ nsleep = <<>>
    /\ valid_plugins = <<>> /\ original_plugins = <<>>
    /\ save_calls = <<>> /\ dist_json = <<>> /\ plugins_json = <<>>
    /\ all_success = FALSE /\ plugins_success = FALSE /\ done_msg = FALSE
    /\ load_failed = FALSE /\ san_name = <<>> /\ san_result = <<>>

Next ==
    \/ ResetDirOk
    \/ ResetDirFails
    \/ LoadOriginsOk
    \/ LoadOriginsFails
    \/ SubRequest
    \/ SubSucceeds
    \/ SubFails
    \/ SubRetry
    \/ CollectReturn
    \/ FetchPluginsLaunch
    \/ \E i \in Tasks : TaskDuplicate(i)
    \/ \E i \in Tasks : TaskStart(i)
    \/ \E i \in Tasks : TaskRequestFails(i)
    \/ \E i \in Tasks : TaskWriteFails(i)
    \/ \E i \in Tasks : TaskSucceeds(i)
    \/ \E i \in Tasks : TaskRetry(i)
    \/ FetchPluginsReturn
    \/ AfterFetch
    \/ SaveAll
    \/ SavePlugins
    \/ Finish

Spec == Init /\ [][Next]_vars

\* the event loop runs a ready task, and a request that was issued returns
\* (httpx timeout, lines 48 and 94): a step that can be taken is taken
FairSpec == Init /\ [][Next]_vars /\ WF_vars(Next)

\* ================================================================== claims
\* fetch_plugins is running, its tasks scheduled; it has returned to its
\* caller; it was called at all
Launched == mpc \in {"gather", "fetched"}
Returned == mpc = "fetched"
Called == mpc \notin {"reset", "load", "collect", "fetch",
                      "exit_reset", "exit_origins", "exit_empty"}
Succeeded == {i \in Tasks : outcome[i] = "success"}
Downloaders == {i \in Tasks : nreq[i] > 0}

\* C1: among the started tasks whose descriptors share a url exactly one
\* passed the seen-url check and issued requests; every other one is a
\* duplicate that issued no request and returned failure; and the
\* ProcessedPlugin output has one record per successful downloader only.
C1_OneDownloaderPerUrl ==
    Launched =>
        /\ \A i \in Tasks : tpc[i] # "init" =>
              LET same == {j \in Tasks : tpc[j] # "init" /\ plugins[j].url = plugins[i].url}
              IN  /\ Cardinality(same \cap Downloaders) = 1
                  /\ \A j \in same \ Downloaders :
                        /\ outcome[j] = "duplicate"
                        /\ tpc[j] = "done"
                        /\ ~result[j].success
        /\ Returned => Len(valid_plugins) = Cardinality(Succeeded \cap Downloaders)

C1_Witness ==
    /\ mpc = "fetched"
    /\ \E i, j, k \in Tasks :
          /\ i < j /\ j < k
          /\ plugins[i].url = plugins[j].url /\ plugins[j].url = plugins[k].url
          /\ outcome[i] = "success" /\ nfail[i] > 0
          /\ outcome[j] = "duplicate" /\ outcome[k] = "duplicate"

\* C2: when fetch_plugins returns, the OriginalPlugin sequence has exactly as
\* many records as the input list has descriptors.
C2_OriginalCount ==
    Returned => Len(original_plugins) = Len(plugins)

C2_Witness ==
    /\ mpc = "fetched"
    /\ \E i, j, k \in Tasks :
          /\ outcome[i] = "success"
          /\ outcome[j] = "exhausted"
          /\ outcome[k] = "duplicate"

\* C3 (as claimed): when fetch_plugins returns, the k successful descriptors
\* of one resolved base name n carry exactly the names n, n_1, ..., n_(k-1),
\* each once.
C3_SuffixesContiguous ==
    Returned =>
        \A i \in Succeeded :
            LET n == ResolveName(plugins[i])
                group == {j \in Succeeded : ResolveName(plugins[j]) = n}
                k == Cardinality(group)
            IN  {result[j].new_plugin.name : j \in group}
                    = {n} \cup {n \o <<"_">> \o IntToStr(m) : m \in 1..(k - 1)}

\* C4 (as claimed): no two records of the ProcessedPlugin output have the
\* same name.
C4_NamesUnique ==
    Returned =>
        \A a, b \in 1..Len(valid_plugins) :
            a # b => valid_plugins[a].name # valid_plugins[b].name

\* C5 (as claimed): when fetch_plugins returns, the successful tasks wrote
\* pairwise distinct filenames, the content store holds exactly one file per
\* ProcessedPlugin record, and the file a record's url names holds the body
\* fetched for that record's descriptor.
C5_DistinctFiles ==
    Returned =>
        /\ \A i, j \in Succeeded :
              i # j => Filename(result[i].new_plugin.name)
                           # Filename(result[j].new_plugin.name)
        /\ Cardinality(DOMAIN js_dir) = Len(valid_plugins)
        /\ \A i \in Succeeded :
              LET f == Filename(result[i].new_plugin.name)
              IN  /\ result[i].new_plugin.url = MirrorUrl(CDN_URL, f)
                  /\ f \in DOMAIN js_dir
                  /\ js_dir[f] = ResponseText(plugins[i].url)

\* C6: a duplicate or exhausted descriptor returns failure with the input
\* descriptor unmodified as its original record, and when fetch_plugins
\* returns it has that one record in the OriginalPlugin output and none in the
\* ProcessedPlugin output.
C6_FailedKeptUnmodified ==
    Launched =>
        /\ \A i \in Tasks : outcome[i] \in {"duplicate", "exhausted"} =>
              /\ ~result[i].success
              /\ result[i].original_plugin = plugins[i]
        /\ Returned =>
              /\ Len(original_plugins) = Len(plugins)
              /\ Len(valid_plugins) = Cardinality(Succeeded)
              /\ \A i \in Tasks : outcome[i] \in {"duplicate", "exhausted"} =>
                    /\ original_plugins[i] = plugins[i]
                    /\ DOMAIN original_plugins[i] = DOMAIN plugins[i]

C6_Witness ==
    /\ mpc = "fetched"
    /\ \E i, j, k \in Tasks :
          /\ outcome[i] = "exhausted"
          /\ ResolveName(plugins[i]) # GetName(plugins[i])
          /\ outcome[j] = "duplicate"
          /\ outcome[k] = "success"
          /\ ResolveName(plugins[k]) = ResolveName(plugins[i])

\* the counts of one retry loop obey the policy
RetryPolicy(pc, ended, ok, requests, failures, delays) ==
    /\ requests <= MAX_RETRIES
    /\ pc = "requesting" => requests = failures + 1 /\ delays = failures
    /\ pc = "sleeping" =>
          requests = failures /\ delays = failures - 1 /\ failures < MAX_RETRIES
    /\ (ended /\ ok) =>
          requests >= 1 /\ requests = failures + 1 /\ delays = failures
    /\ (ended /\ ~ok) =>
          requests = MAX_RETRIES /\ failures = MAX_RETRIES /\ delays = MAX_RETRIES - 1

\* C7: every subscription fetch and every non-duplicate download issues
\* between 1 and MAX_RETRIES requests; a request is outstanding only with
\* every earlier attempt failed and a delay waited after each; after a
\* successful attempt the requests stay one more than the failures; and
\* exhaustion comes with exactly MAX_RETRIES failures and MAX_RETRIES - 1
\* delays, so none after the last failure.  A duplicate issues no request.
C7_RetryPolicy ==
    /\ mpc = "collect" =>
          RetryPolicy(sub_pc, sub_pc = "idle" /\ sub_nreq > 0,
                      src_log # <<>> /\ src_log[Len(src_log)].ok,
                      sub_nreq, sub_nfail, sub_nsleep)
    /\ Launched =>
          \A i \in Tasks :
              /\ outcome[i] = "duplicate" => nreq[i] = 0
              /\ outcome[i] # "duplicate" =>
                    RetryPolicy(tpc[i], outcome[i] \in {"success", "exhausted"},
                                outcome[i] = "success", nreq[i], nfail[i], nsleep[i])

C7_Witness ==
    /\ mpc = "fetched"
    /\ \E k \in 1..Len(src_log) : ~src_log[k].ok
    /\ \E i, j \in Tasks :
          /\ outcome[i] = "exhausted"
          /\ outcome[j] = "success" /\ nfail[j] = MAX_RETRIES - 1

\* what main handed to save_plugin_list for a path, <<>> if it never did
SavedData(path) ==
    LET calls == SelectSeq(save_calls, LAMBDA c : c.path = path)
    IN  IF calls = <<>> THEN <<>> ELSE calls[Len(calls)].data

\* C8 (as claimed): a run that collected at least one descriptor never ends
\* without having attempted both manifest writes, and the plugins handed to
\* the original-links manifest hold every failed descriptor.
C8_AlwaysWritesManifests ==
    (mpc \in {"exit_invalid", "exit_done"}) =>
        /\ Len(save_calls) = 2
        /\ \A i \in Tasks : outcome[i] # "success" =>
              /\ SavedData("plugins.json") # <<>>
              /\ SavedData("plugins.json").plugins[i] = plugins[i]

\* C8 (amended): main attempts a manifest write only in a run with at least
\* one successfully processed descriptor; such a run ends having attempted the
\* primary manifest and then the original-links manifest, the latter holding
\* every failed descriptor; a run in which no descriptor succeeded ends after
\* fetch_plugins with neither write attempted.
C8_WritesIffSomeValid ==
    /\ save_calls # <<>> => (Called /\ Succeeded # {})
    /\ (mpc \in {"save_all", "save_plugins", "finish", "exit_done"}) => Succeeded # {}
    /\ mpc = "exit_invalid" => (Succeeded = {} /\ save_calls = <<>>)
    /\ mpc = "exit_done" =>
          /\ Len(save_calls) = 2
          /\ save_calls[1].path = "all.json"
          /\ save_calls[2].path = "plugins.json"
          /\ Len(save_calls[2].data.plugins) = Len(plugins)
          /\ \A i \in Tasks : outcome[i] # "success" =>
                save_calls[2].data.plugins[i] = plugins[i]
          /\ plugins_success => plugins_json = save_calls[2].data

C8_Witness ==
    /\ mpc = "exit_done"
    /\ plugins_success
    /\ \E i, j \in Tasks : outcome[i] = "exhausted" /\ outcome[j] = "success"

\* C9: the ProcessedPlugin output is never longer than the input list, and
\* as long exactly when every download ended in success and no two input
\* descriptors share a url.
C9_ValidCount ==
    Returned =>
        /\ Len(valid_plugins) <= Len(plugins)
        /\ Len(valid_plugins) = Len(plugins)
              <=> /\ \A i \in Downloaders : outcome[i] = "success"
                  /\ \A i, j \in Tasks : i # j => plugins[i].url # plugins[j].url

C9_Witness ==
    /\ mpc = "fetched"
    /\ Len(plugins) = MaxPlugins
    /\ Len(valid_plugins) = Len(plugins)
    /\ \E i \in Tasks : nfail[i] > 0

\* the plugin lists of the resolved sources, those of failed fetches left out
RECURSIVE Flatten(_, _)
Flatten(log, n) ==
    IF n = 0 THEN <<>>
    ELSE Flatten(log, n - 1) \o (IF log[n].ok THEN log[n].plugins ELSE <<>>)

\* C10: while collect_plugins runs all_plugins is the concatenation, in source
\* order, of the lists of the sources that answered; every source is resolved
\* in turn whether or not an earlier one failed; and what collect_plugins
\* returns is that concatenation over all sources followed by the singles.
C10_CollectOrder ==
    /\ mpc = "collect" =>
          /\ Len(src_log) = src_i - 1
          /\ all_plugins = Flatten(src_log, Len(src_log))
    /\ (mpc \notin {"reset", "load", "collect", "exit_reset", "exit_origins"}) =>
          /\ Len(src_log) = Len(ConfigSources)
          /\ \A k \in 1..Len(src_log) : src_log[k].url = ConfigSources[k]
          /\ all_plugins = Flatten(src_log, Len(src_log)) \o ConfigSingles
          /\ (\A k \in 1..Len(src_log) : ~src_log[k].ok) => all_plugins = ConfigSingles

C10_Witness ==
    /\ mpc = "fetch"
    /\ Len(src_log) = 2
    /\ ~src_log[1].ok
    /\ src_log[2].ok /\ Len(src_log[2].plugins) = 2
    /\ ConfigSingles # <<>>
    /\ all_plugins = src_log[2].plugins \o ConfigSingles

\* p is a prefix of s
IsPrefix(p, s) == Len(p) <= Len(s) /\ SubSeq(s, 1, Len(p)) = p

\* C11: for every successfully processed descriptor the two returned records
\* carry the same name, which starts with the resolved name; the original
\* record keeps the input url; both records have the input's keys (and "name")
\* with every value other than name and url equal to the input's; the records
\* are the ones put into the outputs; and the input list still holds the
\* descriptors it was called with.
C11_FieldsPassedThrough ==
    Launched =>
        /\ \A i \in Tasks : plugins[i] \in Descriptors
        /\ \A i \in Succeeded :
              LET new == result[i].new_plugin
                  orig == result[i].original_plugin
              IN  /\ new.name = orig.name
                  /\ IsPrefix(ResolveName(plugins[i]), new.name)
                  /\ orig.url = plugins[i].url
                  /\ DOMAIN new = DOMAIN plugins[i] \cup {"name"}
                  /\ DOMAIN orig = DOMAIN plugins[i] \cup {"name"}
                  /\ \A k \in DOMAIN plugins[i] \ {"name", "url"} :
                        new[k] = plugins[i][k] /\ orig[k] = plugins[i][k]
                  /\ Returned => original_plugins[i] = orig
        /\ Returned => \A v \in 1..Len(valid_plugins) :
              \E i \in Succeeded : valid_plugins[v] = result[i].new_plugin

C11_Witness ==
    /\ mpc = "fetched"
    /\ \E i, j \in Tasks :
          /\ outcome[i] = "success" /\ outcome[j] = "success"
          /\ "version" \in DOMAIN plugins[i]
          /\ result[i].new_plugin.name # plugins[i].name
          /\ result[j].new_plugin.name = ResolveName(plugins[j]) \o <<"_", "1">>
          /\ nfail[j] = 0

\* C12: once load_origins has failed on a missing or corrupt file, no
\* subscription request and no plugin request is ever issued, no task is
\* created, neither manifest is written, and the only step left to the run is
\* the return of main for want of plugins.
C12_LoadFailureEndsRun ==
    load_failed =>
        /\ mpc \in {"collect", "exit_empty"}
        /\ sub_pc = "idle" /\ sub_nreq = 0 /\ src_log = <<>>
        /\ tpc = <<>> /\ nreq = <<>>
        /\ save_calls = <<>> /\ dist_json = <<>> /\ plugins_json = <<>>
        /\ ~ENABLED SubRequest
        /\ ~ENABLED FetchPluginsLaunch
        /\ mpc = "collect" => ENABLED CollectReturn

C12_Witness ==
    /\ load_failed
    /\ mpc = "exit_empty"
    /\ all_plugins = <<>>
    /\ js_dir = <<>>

\* a subscription or payload request was issued in this run
AnyRequest ==
    \/ sub_nreq > 0
    \/ src_log # <<>>
    \/ \E i \in DOMAIN nreq : nreq[i] > 0
    \/ \E i \in DOMAIN outcome : outcome[i] \in {"success", "exhausted"}

\* C13: a run whose directory reset failed has ended: it has issued no
\* request, written no manifest, and can take no further step; and whenever a
\* request has been issued the reset is behind and the content store no longer
\* holds what the previous run left.
C13_ResetBeforeNetwork ==
    /\ mpc = "exit_reset" =>
          /\ ~AnyRequest
          /\ origins = <<>> /\ plugins = <<>>
          /\ save_calls = <<>> /\ dist_json = <<>> /\ plugins_json = <<>>
          /\ ~ENABLED Next
    /\ mpc = "reset" => ~AnyRequest
    /\ AnyRequest =>
          /\ mpc \notin {"reset", "exit_reset"}
          /\ DOMAIN StaleDir \cap DOMAIN js_dir = {}

C13_Witness ==
    /\ mpc = "exit_reset"
    /\ js_dir = StaleDir

\* C14: after the primary manifest write, whether it returned success or
\* failure, main stands before the original-links write and takes it; after
\* that write, whatever the two calls returned, main goes on to the closing
\* step, so no failure of a write ends the run; a run that reached the end
\* made exactly the two calls, all.json first and plugins.json second, and the
\* success message was logged exactly when both calls returned success.
C14_IndependentWrites ==
    /\ mpc = "save_plugins" =>
          /\ Len(save_calls) = 1 /\ save_calls[1].path = "all.json"
          /\ ENABLED SavePlugins
          /\ ~done_msg
    /\ (mpc \in {"finish", "exit_done"}) =>
          /\ Len(save_calls) = 2
          /\ save_calls[1].path = "all.json" /\ save_calls[2].path = "plugins.json"
    /\ mpc = "finish" => (ENABLED Finish /\ ~done_msg)
    /\ mpc = "exit_done" => (done_msg <=> (all_success /\ plugins_success))
    /\ done_msg => mpc = "exit_done"

C14_Witness ==
    /\ mpc = "exit_done"
    /\ Len(save_calls) = 2
    /\ ~all_success /\ plugins_success
    /\ ~done_msg

\* C15: the url of every successfully processed descriptor's record is
\* "js/" and the stored filename when CDN_URL is unset, and otherwise the base
\* (CDN_URL less all its trailing slashes), one slash and the stored filename;
\* the stored filename is the sanitized name of the record plus ".js" and is a
\* file of the content store.
C15_MirrorUrl ==
    Launched =>
        \A i \in Succeeded :
            LET f == sanitize_filename(result[i].new_plugin.name) \o <<".", "j", "s">>
                url == result[i].new_plugin.url
            IN  /\ f \in DOMAIN js_dir
                /\ CDN_URL = <<>> => url = <<"j", "s", "/">> \o f
                /\ CDN_URL # <<>> =>
                      \E n \in 0..Len(CDN_URL) :
                          /\ n > 0 => CDN_URL[n] # "/"
                          /\ \A k \in (n + 1)..Len(CDN_URL) : CDN_URL[k] = "/"
                          /\ url = (SubSeq(CDN_URL, 1, n) \o <<"/">>) \o f

C15_Witness ==
    /\ mpc = "fetched"
    /\ CDN_URL = <<"c", "d", "n", "/", "/">>
    /\ \E i \in Succeeded :
          result[i].new_plugin.url
              = <<"c", "d", "n", "/", "W", "T", "_", "1", ".", "j", "s">>

\* C16: sanitize_filename returns the name less every character that is not
\* an alphanumeric, an ideograph, an underscore or a space, with spaces turned
\* into underscores, cut to 50 characters, or "plugin" when nothing is left; so
\* the result is not empty, has at most 50 characters, and holds alphanumerics,
\* ideographs and underscores only.
C16_SanitizeReference ==
    mpc = "sanitized" =>
        LET kept == SelectSeq(san_name,
                              LAMBDA c : c \in Letters \cup DigitChars
                                               \cup Ideographs \cup {"_", " "})
            under == [k \in 1..Len(kept) |-> IF kept[k] = " " THEN "_" ELSE kept[k]]
            cut == SubSeq(under, 1, IF Len(under) > 50 THEN 50 ELSE Len(under))
            reference == IF cut = <<>> THEN <<"p", "l", "u", "g", "i", "n">> ELSE cut
        IN  /\ san_result = reference
            /\ san_result # <<>>
            /\ Len(san_result) <= 50
            /\ \A k \in 1..Len(san_result) :
                   san_result[k] \in Letters \cup DigitChars \cup Ideographs \cup {"_"}

\* C17: once a plugin payload request has been issued every subscription
\* source is resolved and no subscription fetch is running; a subscription
\* fetch runs only inside collect_plugins, for the one source whose turn it is,
\* every source before it being resolved and none after it started; and once a
\* manifest write has been called every task of fetch_plugins has ended as a
\* success, a duplicate or exhausted.
C17_StagesOrdered ==
    /\ ((\E i \in DOMAIN nreq : nreq[i] > 0) \/ (\E i \in DOMAIN tpc : tpc[i] # "init")) =>
          /\ Len(src_log) = Len(ConfigSources)
          /\ sub_pc = "idle"
          /\ src_i = Len(ConfigSources) + 1
    /\ sub_pc # "idle" =>
          /\ mpc = "collect"
          /\ src_i \in 1..Len(ConfigSources)
          /\ Len(src_log) = src_i - 1
          /\ plugins = <<>>
    /\ (save_calls # <<>> \/ mpc \in {"save_all", "save_plugins"}) =>
          /\ Tasks # {}
          /\ \A i \in Tasks : outcome[i] \in {"success", "duplicate", "exhausted"}
          /\ tpc = <<>>
          /\ Len(src_log) = Len(ConfigSources)

C17_Witness ==
    /\ mpc = "save_plugins"
    /\ Len(save_calls) = 1
    /\ Len(src_log) = 2 /\ ~src_log[1].ok /\ src_log[2].ok
    /\ \E i, j, k \in Tasks :
          outcome[i] = "success" /\ outcome[j] = "duplicate" /\ outcome[k] = "exhausted"

\* the run has ended: main has returned
Ended == mpc \in {"exit_reset", "exit_origins", "exit_empty", "exit_invalid", "exit_done"}

\* task i can take a step of its own now
CanStep(i) ==
    ENABLED (\/ TaskDuplicate(i) \/ TaskStart(i) \/ TaskRequestFails(i)
             \/ TaskWriteFails(i) \/ TaskSucceeds(i) \/ TaskRetry(i))

\* C18: under fairness, once the tasks are launched every one of them reaches a
\* terminal state and fetch_plugins returns, and every run ends; and while
\* fetch_plugins runs, a task that has started and not ended can take its next
\* step whatever the other tasks do, as can the first task not yet started.
C18_Terminates ==
    /\ [](mpc = "gather" =>
             \A i \in Tasks :
                 /\ tpc[i] \in {"requesting", "sleeping"} => CanStep(i)
                 /\ (tpc[i] = "init" /\ \A j \in 1..(i - 1) : tpc[j] # "init") => CanStep(i))
    /\ (mpc = "gather") ~>
           (/\ mpc \in {"gather", "fetched"}
            /\ \A i \in Tasks : outcome[i] \in {"success", "duplicate", "exhausted"})
    /\ (mpc = "gather") ~> (mpc = "fetched")
    /\ <>Ended

C18_Witness ==
    /\ mpc = "exit_done"
    /\ Len(plugins) >= 2
    /\ \E i, j \in Tasks : outcome[i] = "exhausted" /\ outcome[j] = "success"

\* C19: when fetch_plugins returns, the i-th OriginalPlugin record is the one
\* of the i-th input descriptor and has its url, and the ProcessedPlugin
\* sequence holds the records of the successful descriptors, each at the
\* position its descriptor has among the successful ones in input order,
\* whichever task ended first.
C19_OutputsInInputOrder ==
    Returned =>
        /\ Len(original_plugins) = Len(plugins)
        /\ \A i \in Tasks :
              /\ original_plugins[i] = result[i].original_plugin
              /\ original_plugins[i].url = plugins[i].url
        /\ Len(valid_plugins) = Cardinality(Succeeded)
        /\ \A i \in Succeeded :
              valid_plugins[Cardinality({j \in Succeeded : j <= i})] = result[i].new_plugin

\* the second task ended before the first: both resolve to "WT", neither had a
\* failed attempt, and the first found the name taken
C19_Witness ==
    /\ mpc = "fetched"
    /\ Len(plugins) = 3
    /\ outcome[1] = "success" /\ outcome[2] = "success" /\ outcome[3] = "duplicate"
    /\ \A i \in Tasks : nfail[i] = 0
    /\ result[1].new_plugin.name = <<"W", "T", "_", "1">>
    /\ result[2].new_plugin.name = <<"W", "T">>
    /\ plugins[1].url # plugins[2].url
    /\ Len(valid_plugins) = 2
    /\ valid_plugins[1].name = <<"W", "T", "_", "1">>

\* the payload requests issued for url u by the first n tasks
RECURSIVE RequestsTo(_, _)
RequestsTo(u, n) ==
    IF n = 0 THEN 0
    ELSE RequestsTo(u, n - 1) + (IF plugins[n].url = u THEN nreq[n] ELSE 0)

\* C20: while fetch_plugins runs and when it returns, the url of every task
\* that has taken its first step is in the seen set, so is marked before any
\* request for it; a task whose url another task exhausted its retries on is a
\* duplicate that issued no request; the requests issued for one url by all
\* tasks together are at most MAX_RETRIES; and no step takes a url out of the
\* seen set.
C20_SeenStaysSeen ==
    /\ [](Launched =>
             /\ \A i \in Tasks :
                   /\ tpc[i] # "init" => plugins[i].url \in seen_urls
                   /\ nreq[i] > 0 => plugins[i].url \in seen_urls
                   /\ RequestsTo(plugins[i].url, Len(plugins)) <= MAX_RETRIES
             /\ \A i, j \in Tasks :
                   (/\ i # j /\ plugins[i].url = plugins[j].url
                    /\ outcome[i] = "exhausted" /\ tpc[j] # "init")
                       => (outcome[j] = "duplicate" /\ nreq[j] = 0)
             /\ seen_urls \subseteq {plugins[i].url : i \in Tasks})
    /\ [][seen_urls \subseteq seen_urls']_vars

C20_Witness ==
    /\ mpc = "fetched"
    /\ Len(plugins) = 3
    /\ plugins[1].url = plugins[2].url /\ plugins[2].url = plugins[3].url
    /\ outcome[1] = "exhausted" /\ nreq[1] = MAX_RETRIES
    /\ outcome[2] = "duplicate" /\ outcome[3] = "duplicate"
    /\ RequestsTo(plugins[1].url, 3) = MAX_RETRIES
    /\ valid_plugins = <<>>

====
